---- MODULE Spec2Model ----
(***************************************************************************)
(* Model of the manitto (secret santa) backend, backend/app.py:            *)
(* participants and matches persisted as two JSON files, the matching      *)
(* engine make_matches over the process-wide random source, and the four   *)
(* API handlers admin_upload, admin_match, admin_results and lookup.       *)
(*                                                                         *)
(* A Python str is a sequence of one-character strings, so that strip()    *)
(* and lower() are computed and not assumed.                               *)
(***************************************************************************)
EXTENDS Integers, Sequences, FiniteSets

\* ------------------------------------------------------------------ bounds
\* Longest upload payload (rows) a request carries.
MaxRows == 3
\* Longest participant list handed to make_matches on its own.
MaxLen == 4
\* Number of states of the abstract random generator.
RngMod == 12
\* Number of worker threads serving admin requests concurrently.
NumWorkers == 2

\* ----------------------------------------------------------------- strings
\* str.strip(): drop leading and trailing whitespace.
RECURSIVE LStrip(_)
LStrip(s) == IF s # <<>> /\ Head(s) = " " THEN LStrip(Tail(s)) ELSE s

RECURSIVE RStrip(_)
RStrip(s) ==
    IF s # <<>> /\ s[Len(s)] = " " THEN RStrip(SubSeq(s, 1, Len(s) - 1)) ELSE s

Strip(s) == RStrip(LStrip(s))

\* str.lower() on the alphabet of the model.
LowerChar(c) == CASE c = "A" -> "a" [] c = "B" -> "b" [] OTHER -> c

Lower(s) == [i \in 1..Len(s) |-> LowerChar(s[i])]

normalize_email(email) == Lower(Strip(email))

normalize_name(name) == Strip(name)

normalize_birthdate(birthdate) == Strip(birthdate)

\* int(x) of a str: surrounding whitespace is ignored, then every character
\* must be a digit (0, 1 and 2 here); anything else raises ValueError.
DigitValue(c) == CASE c = "0" -> 0 [] c = "1" -> 1 [] c = "2" -> 2 [] OTHER -> -1

RECURSIVE DigitsValue(_)
DigitsValue(s) ==
    IF s = <<>> THEN 0 ELSE 10 * DigitsValue(SubSeq(s, 1, Len(s) - 1)) + DigitValue(s[Len(s)])

IntParses(s) ==
    /\ Strip(s) # <<>>
    /\ \A i \in 1..Len(Strip(s)) : DigitValue(Strip(s)[i]) >= 0

IntOf(s) == DigitsValue(Strip(s))

\* ------------------------------------------------------------ data classes
Participant(t, n, e, b) == [table |-> t, name |-> n, email |-> e, birthdate |-> b]

Match(t, manitto, manitti) ==
    [table |-> t,
     manitto_name |-> manitto.name, manitto_email |-> manitto.email,
     manitti_name |-> manitti.name, manitti_email |-> manitti.email]

\* --------------------------------------------------------------- grouping
\* Keys of the dict built by group_by_table, in insertion order: the table
\* numbers of the list in order of first occurrence.
RECURSIVE TableOrder(_)
TableOrder(ps) ==
    IF ps = <<>> THEN <<>>
    ELSE LET rest == TableOrder(SubSeq(ps, 1, Len(ps) - 1))
             t == ps[Len(ps)].table
         IN IF \E i \in 1..Len(rest) : rest[i] = t THEN rest ELSE Append(rest, t)

\* grouped[t]: the entries of table t in encounter order.  An entry is kept
\* as its position in the list, which stands for the Participant object.
\* Mutant: the table is not compared, every entry joins every group.
MembersOf_AnyTable(ps, t) == [i \in 1..Len(ps) |-> i]

RECURSIVE MembersOf(_, _)
MembersOf(ps, t) ==
    IF ps = <<>> THEN <<>>
    ELSE LET rest == MembersOf(SubSeq(ps, 1, Len(ps) - 1), t)
         IN IF ps[Len(ps)].table = t THEN Append(rest, Len(ps)) ELSE rest

group_by_table(ps) ==
    LET keys == TableOrder(ps)
    IN [i \in 1..Len(keys) |-> [table |-> keys[i], members |-> MembersOf(ps, keys[i])]]

\* ---------------------------------------------------------- random source
\* The generator is a deterministic machine over 0..RngMod-1: a draw below k
\* returns a value in 0..k-1 and moves the state.
RandBelow(k, s) == s % k

RngStep(k, s) == ((s \div k) + 15 * (s % k) + 5) % RngMod

\* random.seed(seed): the state is a function of the seed alone.
SeedState(seed) == (7 * seed + 3) % RngMod

Swap(x, i, j) == [x EXCEPT ![i] = x[j], ![j] = x[i]]

\* random.shuffle(x): for i in reversed(range(1, len(x))):
\*                        j = randbelow(i + 1); x[i], x[j] = x[j], x[i]
\* (positions are 1-based here).  Gives the shuffled list and the new state.
RECURSIVE ShuffleFrom(_, _, _)
ShuffleFrom(x, i, s) ==
    IF i < 2 THEN [list |-> x, rng |-> s]
    ELSE ShuffleFrom(Swap(x, i, RandBelow(i, s) + 1), i - 1, RngStep(i, s))

Shuffle(x, s) == ShuffleFrom(x, Len(x), s)

\* ------------------------------------------------------------ make_matches
\* The (manitto, manitti) pairs of one shuffled group: both directions for a
\* group of two, the cycle idx -> (idx + 1) % len otherwise.
\* Mutant: the recipient index is idx instead of idx + 1.
PairsOf_Self(shuffled) ==
    IF Len(shuffled) = 2
    THEN << <<shuffled[1], shuffled[2]>>, <<shuffled[2], shuffled[1]>> >>
    ELSE [idx \in 1..Len(shuffled) |-> <<shuffled[idx], shuffled[idx]>>]

\* Mutant: the recipient index is idx + 2 instead of idx + 1.
PairsOf_Skip(shuffled) ==
    IF Len(shuffled) = 2
    THEN << <<shuffled[1], shuffled[2]>>, <<shuffled[2], shuffled[1]>> >>
    ELSE [idx \in 1..Len(shuffled) |->
            <<shuffled[idx], shuffled[((idx + 1) % Len(shuffled)) + 1]>>]

PairsOf(shuffled) ==
    IF Len(shuffled) = 2
    THEN << <<shuffled[1], shuffled[2]>>, <<shuffled[2], shuffled[1]>> >>
    ELSE [idx \in 1..Len(shuffled) |->
            <<shuffled[idx], shuffled[(idx % Len(shuffled)) + 1]>>]

\* The loop over grouped.items(), from group k on.  acc carries the pairs
\* appended so far and the generator state; a group of fewer than two raises
\* ValueError and leaves the loop with what earlier groups had appended.
RECURSIVE MatchGroups(_, _, _)
MatchGroups(grouped, k, acc) ==
    IF k > Len(grouped) THEN acc
    ELSE IF Len(grouped[k].members) < 2
         THEN [acc EXCEPT !.ok = FALSE, !.bad = grouped[k].table]
         ELSE LET sh == Shuffle(grouped[k].members, acc.rng)
                  prs == PairsOf(sh.list)
              IN MatchGroups(grouped, k + 1,
                     [acc EXCEPT !.rng = sh.rng,
                                 !.pairs = acc.pairs \o
                                     [i \in 1..Len(prs) |->
                                         [table |-> grouped[k].table,
                                          manitto |-> prs[i][1],
                                          manitti |-> prs[i][2]]]])

\* seed is <<>> for None and <<n>> for the integer n.
\* Mutant: the random source is not reseeded.
SeededRng_Ignored(seed, s) == s

SeededRng(seed, s) == IF seed # <<>> THEN SeedState(seed[1]) ELSE s

\* make_matches(participants, seed) run from generator state s.  ok = FALSE
\* stands for the raised ValueError (bad: the offending table); pairs holds
\* the entries paired (by position in participants), results the Match
\* objects built from them, rng the generator state the call leaves behind.
make_matches(participants, seed, s) ==
    LET r == MatchGroups(group_by_table(participants), 1,
                 [ok |-> TRUE, bad |-> 0, pairs |-> <<>>, rng |-> SeededRng(seed, s)])
    IN [ok |-> r.ok, bad |-> r.bad, pairs |-> r.pairs, rng |-> r.rng,
        results |-> [i \in 1..Len(r.pairs) |->
                        Match(r.pairs[i].table,
                              participants[r.pairs[i].manitto],
                              participants[r.pairs[i].manitti])]]

\* ------------------------------------------------------------------- state
VARIABLES
    participants_file,  \* content of PARTICIPANTS_PATH (<<>>: absent or [])
    matches_file,       \* content of MATCHES_PATH (<<>>: absent or [])
    rng,                \* state of the generator behind the random module
    resp,               \* the response to the last request served
    plist,              \* make_matches called directly: its participants argument
    ret,                \* ... what the last such call returned
    log,                \* ... per seed, the first result and the latest later one
    pc,                 \* concurrent requests: where each worker thread stands
    loc,                \* ... each worker's local variables
    src                 \* ... the participants file as read by the request
                        \*     that wrote the matches file last

call_vars == <<plist, ret, log>>

worker_vars == <<pc, loc, src>>

vars == <<participants_file, matches_file, rng, resp, plist, ret, log, pc, loc, src>>

Response(op, status, error, count, items) ==
    [op |-> op, status |-> status, error |-> error, count |-> count, items |-> items]

NoResponse == Response("none", 0, "", 0, <<>>)

\* --------------------------------------------------------- record store
\* asdict(p) for each participant, as written by save_participants.
save_participants(participants) == participants

save_matches(matches) == matches

load_participants(file) ==
    [i \in 1..Len(file) |->
        Participant(file[i].table, file[i].name,
                    normalize_email(file[i].email),
                    normalize_birthdate(file[i].birthdate))]

load_matches(file) ==
    [i \in 1..Len(file) |->
        [file[i] EXCEPT !.manitto_email = normalize_email(@),
                        !.manitti_email = normalize_email(@)]]

\* ------------------------------------------------------------ admin_upload
RowKeys == <<"table", "name", "email", "birthdate">>

\* What building Participant(...) from a row raises: the fields are read in
\* the order table, name, email, birthdate; a missing key is a KeyError and
\* a table that int() rejects a ValueError.
row_error(row) ==
    IF "table" \notin DOMAIN row THEN "KeyError"
    ELSE IF ~IntParses(row.table) THEN "ValueError"
    ELSE IF \E i \in 2..4 : RowKeys[i] \notin DOMAIN row THEN "KeyError"
    ELSE "none"

parse_row(row) ==
    Participant(IntOf(row.table), Strip(row.name),
                normalize_email(row.email), normalize_birthdate(row.birthdate))

\* The loop over payload, from row k on: the participants appended so far,
\* and the exception that ended the loop, if any.
RECURSIVE parse_rows(_, _, _)
parse_rows(rows, k, acc) ==
    IF k > Len(rows) THEN [error |-> "none", participants |-> acc]
    ELSE IF row_error(rows[k]) # "none"
         THEN [error |-> row_error(rows[k]), participants |-> acc]
         ELSE parse_rows(rows, k + 1, Append(acc, parse_row(rows[k])))

\* The handler's parse of the request body: whether it is a list, and what
\* the loop over its rows gave.
parse_payload(payload) ==
    IF payload.is_list
    THEN LET r == parse_rows(payload.rows, 1, <<>>)
         IN [is_list |-> TRUE, error |-> r.error, participants |-> r.participants]
    ELSE [is_list |-> FALSE, error |-> "none", participants |-> <<>>]

upload_ok(parsed) == parsed.is_list /\ parsed.error = "none"

\* Mutant: the rows parsed so far are saved although a later row is refused.
upload_participants_Eager(parsed, old) ==
    IF parsed.is_list THEN save_participants(parsed.participants) ELSE old

\* The participants file after the handler has run (old: its content before).
upload_participants(parsed, old) ==
    IF upload_ok(parsed) THEN save_participants(parsed.participants) ELSE old

\* Mutant: the previous matches are kept.
upload_matches_Kept(parsed, old) == old

\* The matches file after the handler has run (old: its content before).
upload_matches(parsed, old) ==
    IF upload_ok(parsed) THEN save_matches(<<>>) ELSE old

upload_response(parsed) ==
    IF ~parsed.is_list THEN Response("upload", 400, "not a list", 0, <<>>)
    ELSE IF parsed.error # "none" THEN Response("upload", 400, parsed.error, 0, <<>>)
    ELSE Response("upload", 200, "", Len(parsed.participants), <<>>)

\* req.payload is the request body and req.parsed the handler's parse of it.
admin_upload(req) ==
    /\ participants_file' = upload_participants(req.parsed, participants_file)
    /\ matches_file' = upload_matches(req.parsed, matches_file)
    /\ resp' = upload_response(req.parsed)
    /\ UNCHANGED <<rng, call_vars, worker_vars>>

\* ------------------------------------------------------------- admin_match
\* body.get("seed"): <<>> when absent, <<text>> when given.
seed_error(seed) == seed # <<>> /\ ~IntParses(seed[1])

seed_val(seed) == IF seed = <<>> THEN <<>> ELSE <<IntOf(seed[1])>>

\* Mutant: what the loop had appended is saved although it raised.
match_saved_Partial(r, old) == save_matches(r.results)

\* The matches file after make_matches has returned or raised r.
match_saved(r, old) == IF r.ok THEN save_matches(r.results) ELSE old

admin_match(seed) ==
    LET participants == load_participants(participants_file)
        r == make_matches(participants, seed_val(seed), rng)
    IN /\ UNCHANGED <<participants_file, call_vars, worker_vars>>
       /\ IF seed_error(seed)
          THEN /\ resp' = Response("match", 400, "seed", 0, <<>>)
               /\ UNCHANGED <<matches_file, rng>>
          ELSE IF participants = <<>>
          THEN /\ resp' = Response("match", 400, "no participants", 0, <<>>)
               /\ UNCHANGED <<matches_file, rng>>
          ELSE /\ rng' = r.rng
               /\ matches_file' = match_saved(r, matches_file)
               /\ resp' = IF r.ok
                          THEN Response("match", 200, "", Len(r.results), <<>>)
                          ELSE Response("match", 400, "table", r.bad, <<>>)

\* ----------------------------------------------------------- admin_results
results_response(file) == Response("results", 200, "", 0, load_matches(file))

admin_results ==
    /\ resp' = results_response(matches_file)
    /\ UNCHANGED <<participants_file, matches_file, rng, call_vars, worker_vars>>

\* ------------------------------------------------------------------ lookup
\* next((p for p in participants if normalize_name(p.name) == name_norm), None)
\* as the position of that participant, 0 for None.
RECURSIVE first_named(_, _, _)
first_named(participants, name_norm, k) ==
    IF k > Len(participants) THEN 0
    ELSE IF normalize_name(participants[k].name) = name_norm THEN k
    ELSE first_named(participants, name_norm, k + 1)

\* The loop over matches: the first match whose manitto_name normalizes to
\* name_norm, 0 when the loop falls through.
RECURSIVE first_match(_, _, _)
first_match(matches, name_norm, k) ==
    IF k > Len(matches) THEN 0
    ELSE IF normalize_name(matches[k].manitto_name) = name_norm THEN k
    ELSE first_match(matches, name_norm, k + 1)

\* Mutant: the giver is reported as the recipient.
lookup_body_Giver(m) ==
    [your_name |-> m.manitto_name, table |-> m.table,
     manitti_name |-> m.manitto_name, manitti_email |-> m.manitto_email]

lookup_body(m) ==
    [your_name |-> m.manitto_name, table |-> m.table,
     manitti_name |-> m.manitti_name, manitti_email |-> m.manitti_email]

\* Mutant: the stored matches are looked at before the birthdate.
lookup_response_MatchesFirst(name, birthdate, pfile, mfile) ==
    IF name = <<>> \/ birthdate = <<>>
    THEN Response("lookup", 400, "missing", 0, <<>>)
    ELSE LET name_norm == normalize_name(name)
             birthdate_norm == normalize_birthdate(birthdate)
             participants == load_participants(pfile)
             p == first_named(participants, name_norm, 1)
             matches == load_matches(mfile)
             m == first_match(matches, name_norm, 1)
         IN IF p = 0 THEN Response("lookup", 404, "name", 0, <<>>)
            ELSE IF matches = <<>>
            THEN Response("lookup", 400, "not matched", 0, <<>>)
            ELSE IF participants[p].birthdate # birthdate_norm
            THEN Response("lookup", 403, "birthdate", 0, <<>>)
            ELSE IF m = 0 THEN Response("lookup", 404, "no match", 0, <<>>)
            ELSE Response("lookup", 200, "", 0, <<lookup_body(matches[m])>>)

\* name and birthdate are the body's fields, <<>> when missing or empty.
lookup_response(name, birthdate, pfile, mfile) ==
    IF name = <<>> \/ birthdate = <<>>
    THEN Response("lookup", 400, "missing", 0, <<>>)
    ELSE LET name_norm == normalize_name(name)
             birthdate_norm == normalize_birthdate(birthdate)
             participants == load_participants(pfile)
             p == first_named(participants, name_norm, 1)
             matches == load_matches(mfile)
             m == first_match(matches, name_norm, 1)
         IN IF p = 0 THEN Response("lookup", 404, "name", 0, <<>>)
            ELSE IF participants[p].birthdate # birthdate_norm
            THEN Response("lookup", 403, "birthdate", 0, <<>>)
            ELSE IF matches = <<>>
            THEN Response("lookup", 400, "not matched", 0, <<>>)
            ELSE IF m = 0 THEN Response("lookup", 404, "no match", 0, <<>>)
            ELSE Response("lookup", 200, "", 0, <<lookup_body(matches[m])>>)

lookup(name, birthdate) ==
    /\ resp' = lookup_response(name, birthdate, participants_file, matches_file)
    /\ UNCHANGED <<participants_file, matches_file, rng, call_vars, worker_vars>>

\* ------------------------------------------------------------------ inputs
Str1(a) == <<a>>
Str2(a, b) == <<a, b>>

RawRow(t, n, e, b) == [table |-> t, name |-> n, email |-> e, birthdate |-> b]

\* Two people of table 1 and one of table 2, as an upload spells them.
RowA == RawRow(Str1("1"), Str1("a"), Str1("A"), Str1("1"))
RowB == RawRow(Str2("1", " "), Str1("b"), Str2(" ", "B"), Str2("1", " "))
RowC == RawRow(Str1("2"), Str1("c"), Str1("c"), Str1("2"))
\* A second person named "a" at table 1, with an empty birthdate.
RowA2 == RawRow(Str1("1"), Str2(" ", "a"), Str1("c"), Str1(" "))
\* A person of table 1 whose name is empty once stripped.
RowE == RawRow(Str1("1"), Str1(" "), Str1("d"), Str1("2"))
\* Malformed rows: no email key; a table that is no number.
RowNoEmail == [table |-> Str1("1"), name |-> Str1("a"), birthdate |-> Str1("1")]
RowBadTable == RawRow(Str1("x"), Str1("a"), Str1("A"), Str1("1"))

ListsOver(rows, n) == UNION { [1..k -> rows] : k \in 0..n }

\* Request bodies of POST /api/admin/upload.
Payloads ==
    { [is_list |-> FALSE, rows |-> <<>>] } \cup
    { [is_list |-> TRUE, rows |-> rows] :
        rows \in ListsOver({RowA, RowB, RowC, RowBadTable}, MaxRows) \cup
                 ListsOver({RowNoEmail}, 1) }

\* Bodies the concurrent uploads carry: rosters of table 1, of up to two.
RacingPayloads ==
    { [is_list |-> TRUE, rows |-> rows] : rows \in ListsOver({RowA, RowB}, 2) }

RacingRequests == { [payload |-> p, parsed |-> parse_payload(p)] : p \in RacingPayloads }

UploadRequests == { [payload |-> p, parsed |-> parse_payload(p)] : p \in Payloads }

\* Uploads that leave the snapshots the lookups are checked on.
RosterPayloads ==
    { [is_list |-> TRUE, rows |-> rows] :
        rows \in ListsOver({RowA, RowA2, RowB, RowC, RowE}, MaxRows) }

RawSeeds == { <<>>, <<Str1("0")>>, <<Str1("1")>>, <<Str1("x")>> }

LookupNames ==
    { <<>>, Str1(" "), Str1("a"), Str2("a", " "), Str1("b"), Str1("c"), Str1("z") }

LookupBirthdates == { <<>>, Str1(" "), Str1("1"), Str2(" ", "1"), Str1("2") }

\* Participant lists make_matches is called on directly: people as
\* load_participants hands them over, two of them sharing a name.
Persons == { parse_row(RowA), parse_row(RowA2), parse_row(RowB), parse_row(RowC) }

Seeds == { 0, 1 }

SeedArgs == { <<>> } \cup { <<n>> : n \in Seeds }

NoReturn == [called |-> FALSE, seed |-> <<>>, ok |-> FALSE, pairs |-> <<>>, results |-> <<>>]

NoCall ==
    /\ plist = <<>>
    /\ ret = NoReturn
    /\ log = [n \in Seeds |-> <<>>]

\* What a caller of make_matches sees: the list returned, or the ValueError.
Outcome(r) == [ok |-> r.ok, results |-> IF r.ok THEN r.results ELSE <<>>]

\* A call make_matches(plist, seed) on the shared random source.
call_make_matches(seed) ==
    LET r == make_matches(plist, seed, rng)
    IN /\ rng' = r.rng
       /\ ret' = [called |-> TRUE, seed |-> seed, ok |-> r.ok,
                  pairs |-> IF r.ok THEN r.pairs ELSE <<>>,
                  results |-> Outcome(r).results]
       /\ log' = IF seed = <<>> THEN log
                 ELSE [log EXCEPT ![seed[1]] =
                          IF @ = <<>> THEN <<Outcome(r)>> ELSE <<@[1], Outcome(r)>>]
       /\ UNCHANGED <<participants_file, matches_file, resp, plist, worker_vars>>

\* ------------------------------------------------------ concurrent requests
\* Admin requests served by worker threads, each request taken at the grain
\* of its file accesses.  admin_upload: write participants, then write
\* matches.  admin_match: read participants, then write matches.
Workers == 1..NumWorkers

\* snapshot: the participants a request holds (parsed from its body, or as
\* the file had them when read); matches: the matches it is about to save.
NoLocals == [snapshot |-> <<>>, matches |-> <<>>]

NoWorkers ==
    /\ pc = [w \in Workers |-> "idle"]
    /\ loc = [w \in Workers |-> NoLocals]
    /\ src = <<>>

\* Lines 148-166: the body is parsed and, if well formed, participants saved.
upload_write_participants(w, req) ==
    /\ pc[w] = "idle"
    /\ participants_file' = upload_participants(req.parsed, participants_file)
    /\ pc' = [pc EXCEPT ![w] = IF upload_ok(req.parsed) THEN "upload_clear" ELSE "idle"]
    /\ loc' = [loc EXCEPT ![w] = IF upload_ok(req.parsed)
                                 THEN [snapshot |-> req.parsed.participants,
                                       matches |-> <<>>]
                                 ELSE NoLocals]
    /\ resp' = IF upload_ok(req.parsed) THEN resp ELSE upload_response(req.parsed)
    /\ UNCHANGED <<matches_file, rng, src, call_vars>>

\* Lines 168-169: the matches are reset and the request answered.
upload_write_matches(w) ==
    LET parsed == [is_list |-> TRUE, error |-> "none", participants |-> loc[w].snapshot]
    IN /\ pc[w] = "upload_clear"
       /\ matches_file' = upload_matches(parsed, matches_file)
       /\ src' = <<>>
       /\ pc' = [pc EXCEPT ![w] = "idle"]
       /\ loc' = [loc EXCEPT ![w] = NoLocals]
       /\ resp' = upload_response(parsed)
       /\ UNCHANGED <<participants_file, rng, call_vars>>

\* Lines 174-188: participants are read and matched.
match_read_participants(w, seed) ==
    LET participants == load_participants(participants_file)
        r == make_matches(participants, seed_val(seed), rng)
        fails == seed_error(seed) \/ participants = <<>> \/ ~r.ok
    IN /\ pc[w] = "idle"
       /\ rng' = IF seed_error(seed) \/ participants = <<>> THEN rng ELSE r.rng
       /\ pc' = [pc EXCEPT ![w] = IF fails THEN "idle" ELSE "match_save"]
       /\ loc' = [loc EXCEPT ![w] = IF fails THEN NoLocals
                                    ELSE [snapshot |-> participants_file,
                                          matches |-> r.results]]
       /\ resp' = IF seed_error(seed) THEN Response("match", 400, "seed", 0, <<>>)
                  ELSE IF participants = <<>>
                  THEN Response("match", 400, "no participants", 0, <<>>)
                  ELSE IF ~r.ok THEN Response("match", 400, "table", r.bad, <<>>)
                  ELSE resp
       /\ UNCHANGED <<participants_file, matches_file, src, call_vars>>

\* Lines 190-191: the matches are saved and the request answered.
match_write_matches(w) ==
    /\ pc[w] = "match_save"
    /\ matches_file' = save_matches(loc[w].matches)
    /\ src' = loc[w].snapshot
    /\ pc' = [pc EXCEPT ![w] = "idle"]
    /\ loc' = [loc EXCEPT ![w] = NoLocals]
    /\ resp' = Response("match", 200, "", Len(loc[w].matches), <<>>)
    /\ UNCHANGED <<participants_file, rng, call_vars>>

\* ----------------------------------------------------------- specification
\* The service from an empty data directory.
Init ==
    /\ participants_file = <<>>
    /\ matches_file = <<>>
    /\ rng \in 0..(RngMod - 1)
    /\ resp = NoResponse
    /\ NoCall
    /\ NoWorkers

Next ==
    \/ \E req \in UploadRequests : admin_upload(req)
    \/ \E seed \in RawSeeds : admin_match(seed)
    \/ admin_results
    \/ \E name \in LookupNames, birthdate \in LookupBirthdates : lookup(name, birthdate)

Spec == Init /\ [][Next]_vars

\* The service once a roster has been uploaded: the states admin_upload leaves
\* from an empty data directory, then match, results and lookup requests.
InitRoster ==
    \E payload \in RosterPayloads :
        LET parsed == parse_payload(payload)
        IN /\ participants_file = upload_participants(parsed, <<>>)
           /\ matches_file = upload_matches(parsed, <<>>)
           /\ resp = upload_response(parsed)
           /\ rng \in 0..(RngMod - 1)
           /\ NoCall
           /\ NoWorkers

NextRoster ==
    \/ \E seed \in RawSeeds : admin_match(seed)
    \/ admin_results
    \/ \E name \in LookupNames, birthdate \in LookupBirthdates : lookup(name, birthdate)

SpecRoster == InitRoster /\ [][NextRoster]_vars

\* make_matches on its own: a participant list, then seeded and unseeded
\* calls on it in any order, from any state of the random source.
InitCall ==
    /\ participants_file = <<>>
    /\ matches_file = <<>>
    /\ resp = NoResponse
    /\ rng \in 0..(RngMod - 1)
    /\ plist \in ListsOver(Persons, MaxLen)
    /\ ret = NoReturn
    /\ log = [n \in Seeds |-> <<>>]
    /\ NoWorkers

NextCall == \E seed \in SeedArgs : call_make_matches(seed)

SpecCall == InitCall /\ [][NextCall]_vars

\* Upload and match requests running concurrently on the worker threads,
\* from an empty data directory.
InitRacing ==
    /\ participants_file = <<>>
    /\ matches_file = <<>>
    /\ rng \in 0..(RngMod - 1)
    /\ resp = NoResponse
    /\ NoCall
    /\ NoWorkers

NextRacing ==
    \E w \in Workers :
        \/ \E req \in RacingRequests : upload_write_participants(w, req)
        \/ upload_write_matches(w)
        \/ \E seed \in RawSeeds : match_read_participants(w, seed)
        \/ match_write_matches(w)

SpecRacing == InitRacing /\ [][NextRacing]_vars

\* ================================================================== claims
Range(s) == { s[i] : i \in 1..Len(s) }

Count(s, x) == Cardinality({ i \in 1..Len(s) : s[i] = x })

SameBag(s, t) ==
    /\ Len(s) = Len(t)
    /\ \A x \in Range(s) \cup Range(t) : Count(s, x) = Count(t, x)

Person(n, e) == [name |-> n, email |-> e]

Entries(ps) == [i \in 1..Len(ps) |-> [table |-> ps[i].table, who |-> Person(ps[i].name, ps[i].email)]]

Givers(ms) ==
    [k \in 1..Len(ms) |->
        [table |-> ms[k].table, who |-> Person(ms[k].manitto_name, ms[k].manitto_email)]]

SelfGift(m) == m.manitto_name = m.manitti_name /\ m.manitto_email = m.manitti_email

TableEntries(ps, t) == { i \in 1..Len(ps) : ps[i].table = t }

Tables(ps) == { ps[i].table : i \in 1..Len(ps) }

EveryTableHasTwo(ps) == \A t \in Tables(ps) : Cardinality(TableEntries(ps, t)) >= 2

\* No table lists the same name and email twice.
DistinctPeopleAt(ps, t) ==
    \A i, j \in TableEntries(ps, t) :
        i # j => Person(ps[i].name, ps[i].email) # Person(ps[j].name, ps[j].email)

DistinctPeople(ps) == \A t \in Tables(ps) : DistinctPeopleAt(ps, t)

\* Every entry of the list is the giver of exactly one returned match.
OneMatchPerEntry ==
    /\ \A i \in 1..Len(plist) :
          Cardinality({ k \in 1..Len(ret.pairs) : ret.pairs[k].manitto = i }) = 1
    /\ SameBag(Entries(plist), Givers(ret.results))

\* C1 as stated: whenever every table has at least 2 members, make_matches
\* returns exactly one match per participant entry with that participant as
\* giver, and no returned match has the same person (name and email) as giver
\* and recipient.
C1_NoSelfGift ==
    (ret.called /\ EveryTableHasTwo(plist)) =>
        /\ ret.ok
        /\ OneMatchPerEntry
        /\ \A k \in 1..Len(ret.results) : ~SelfGift(ret.results[k])

\* C1 amended: whenever every table has at least 2 members, make_matches
\* returns exactly one match per participant entry with that participant as
\* giver, no returned match pairs an entry with itself, and giver and
\* recipient differ in name or email provided no table lists the same name
\* and email twice.
C1_NoSelfGiftAmongDistinct ==
    (ret.called /\ EveryTableHasTwo(plist)) =>
        /\ ret.ok
        /\ OneMatchPerEntry
        /\ \A k \in 1..Len(ret.pairs) : ret.pairs[k].manitto # ret.pairs[k].manitti
        /\ DistinctPeople(plist) =>
              \A k \in 1..Len(ret.results) : ~SelfGift(ret.results[k])

\* A call returned the matches of a table of three different people.
C1_Witness ==
    /\ ret.called /\ ret.ok
    /\ Len(plist) >= 3
    /\ DistinctPeople(plist)
    /\ Len(ret.results) = Len(plist)

\* C6: any two calls of make_matches on the same list with the same seed
\* return the same thing, whatever calls moved the random source in between:
\* the latest result of a seed equals the first one.
C6_SeedDeterministic ==
    \A n \in Seeds : Len(log[n]) = 2 => log[n][1] = log[n][2]

\* Both seeds were used at least twice, on a list they shuffle differently.
C6_Witness ==
    /\ \A n \in Seeds : Len(log[n]) = 2 /\ log[n][1].ok
    /\ \E n, m \in Seeds : log[n][1] # log[m][1]

\* Following the links from x visits all of S and returns to x after
\* Cardinality(S) steps, each member of S having exactly one outgoing link.
LinkFrom(links, x) == (CHOOSE l \in links : l[1] = x)[2]

RECURSIVE Follow(_, _, _)
Follow(links, x, n) == IF n = 0 THEN x ELSE Follow(links, LinkFrom(links, x), n - 1)

SingleCycleOn(links, S) ==
    /\ \A l \in links : l[1] \in S /\ l[2] \in S
    /\ \A x \in S : Cardinality({ l \in links : l[1] = x }) = 1
    /\ \A x \in S :
          /\ { Follow(links, x, n) : n \in 0..(Cardinality(S) - 1) } = S
          /\ Follow(links, x, Cardinality(S)) = x

EntryLinks(pairs, t) ==
    { <<pairs[k].manitto, pairs[k].manitti>> :
        k \in { k \in 1..Len(pairs) : pairs[k].table = t } }

PersonLinks(ms, t) ==
    { <<Person(ms[k].manitto_name, ms[k].manitto_email),
        Person(ms[k].manitti_name, ms[k].manitti_email)>> :
        k \in { k \in 1..Len(ms) : ms[k].table = t } }

PeopleAt(ps, t) == { Person(ps[i].name, ps[i].email) : i \in TableEntries(ps, t) }

\* C7: for every table of 3 or more members the returned matches of the table
\* form one cycle through all its entries; where the table's people are all
\* different, so do the giver -> recipient links read off the Match records.
C7_SingleCycle ==
    (ret.called /\ ret.ok) =>
        \A t \in Tables(plist) :
            Cardinality(TableEntries(plist, t)) >= 3 =>
                /\ SingleCycleOn(EntryLinks(ret.pairs, t), TableEntries(plist, t))
                /\ DistinctPeopleAt(plist, t) =>
                      SingleCycleOn(PersonLinks(ret.results, t), PeopleAt(plist, t))

\* A call returned the matches of a table of three different people.
C7_Witness ==
    /\ ret.called /\ ret.ok
    /\ \E t \in Tables(plist) :
          /\ Cardinality(TableEntries(plist, t)) >= 3
          /\ DistinctPeopleAt(plist, t)
          /\ Cardinality(PersonLinks(ret.results, t)) >= 3

\* C10: every returned match pairs two entries of one table and carries that
\* table's number.
C10_WithinTable ==
    (ret.called /\ ret.ok) =>
        \A k \in 1..Len(ret.results) :
            /\ plist[ret.pairs[k].manitto].table = ret.results[k].table
            /\ plist[ret.pairs[k].manitti].table = ret.results[k].table
            /\ \E i, j \in TableEntries(plist, ret.results[k].table) :
                  ret.results[k] = Match(ret.results[k].table, plist[i], plist[j])

\* A call returned matches for two tables.
C10_Witness ==
    /\ ret.called /\ ret.ok
    /\ \E k, l \in 1..Len(ret.results) : ret.results[k].table # ret.results[l].table

\* ------------------------------------------------------ claims on lookups
Padded(x) == <<" ">> \o x \o <<" ">>

\* A value as a client may send it: bare, or with surrounding whitespace.
Spellings(x) == { x, Padded(x) }

GivenBy(m, p) ==
    m.table = p.table /\ m.manitto_name = p.name /\ m.manitto_email = p.email

\* The response is 200 and names the recipient of a stored match given by p.
AnswersFor(r, p) ==
    /\ r.status = 200
    /\ \E k \in 1..Len(matches_file) :
          /\ GivenBy(matches_file[k], p)
          /\ r.items[1].manitti_name = matches_file[k].manitti_name
          /\ r.items[1].manitti_email = matches_file[k].manitti_email

LookupsAnswer(p) ==
    \A n \in Spellings(p.name), b \in Spellings(p.birthdate) :
        AnswersFor(lookup_response(n, b, participants_file, matches_file), p)

UniqueName(i) ==
    \A j \in 1..Len(participants_file) :
        j # i => Strip(participants_file[j].name) # Strip(participants_file[i].name)

\* C2 as stated: once an uploaded roster has been matched, a lookup with any
\* stored participant's name and birthdate, with or without surrounding
\* whitespace, returns 200 and the recipient of the match that participant
\* gives.
C2_LookupReturnsRecipient ==
    matches_file # <<>> =>
        \A i \in 1..Len(participants_file) : LookupsAnswer(participants_file[i])

\* C2 amended: the same for every stored participant whose name and birthdate
\* are not empty and whose name no other stored participant bears.
C2_LookupReturnsRecipientOfUniqueName ==
    matches_file # <<>> =>
        \A i \in 1..Len(participants_file) :
            ( /\ participants_file[i].name # <<>>
              /\ participants_file[i].birthdate # <<>>
              /\ UniqueName(i) ) => LookupsAnswer(participants_file[i])

\* A lookup was answered 200 for a participant of a matched roster of three
\* whose name is unique in it.
C2_Witness ==
    /\ resp.op = "lookup" /\ resp.status = 200
    /\ Len(participants_file) >= 3
    /\ \E i \in 1..Len(participants_file) :
          /\ UniqueName(i)
          /\ participants_file[i].name = resp.items[1].your_name
          /\ AnswersFor(resp, participants_file[i])

Named(n) == { i \in 1..Len(participants_file) : Strip(participants_file[i].name) = Strip(n) }

FirstNamed(n) == CHOOSE i \in Named(n) : \A j \in Named(n) : i <= j

\* C4: a lookup with non-empty name and birthdate is answered 404 when no
\* stored participant bears the name, 403 when the first one bearing it has
\* another birthdate (matched or not), and 400 when that birthdate agrees
\* but no match is stored.
C4_LookupErrors ==
    \A n \in LookupNames \ {<<>>}, b \in LookupBirthdates \ {<<>>} :
        LET r == lookup_response(n, b, participants_file, matches_file)
        IN IF Named(n) = {} THEN r.status = 404
           ELSE IF participants_file[FirstNamed(n)].birthdate # Strip(b)
                THEN r.status = 403
                ELSE matches_file = <<>> => r.status = 400

\* A lookup with a wrong birthdate was answered 403 before any matching.
C4_Witness ==
    /\ resp.op = "lookup" /\ resp.status = 403
    /\ matches_file = <<>>
    /\ participants_file # <<>>

\* -------------------------------------------- claims on upload and match
\* C3: a successful upload leaves the stored match set empty, and while it is
\* empty it stays empty, and GET /api/admin/results answers the empty list,
\* until a match request succeeds.
C3_UploadClearsMatches ==
    [][ /\ (resp'.op = "upload" /\ resp'.status = 200) => matches_file' = <<>>
        /\ (matches_file = <<>> /\ ~(resp'.op = "match" /\ resp'.status = 200)) =>
              /\ matches_file' = <<>>
              /\ resp'.op = "results" => resp'.items = <<>> ]_vars

\* Results were asked for after the upload of a roster that can be matched,
\* and before matching it.
C3_Witness ==
    /\ resp.op = "results" /\ resp.items = <<>>
    /\ Len(participants_file) >= 2
    /\ EveryTableHasTwo(participants_file)

\* C5: a match request on an empty roster, or on one with a table of fewer
\* than 2 members, is answered 400 and leaves both files as they were.
C5_FailedMatchPersistsNothing ==
    [][ ( /\ resp'.op = "match"
          /\ participants_file = <<>> \/ ~EveryTableHasTwo(participants_file) ) =>
            /\ resp'.status = 400
            /\ matches_file' = matches_file
            /\ participants_file' = participants_file ]_vars

\* A match request failed on a table that came after a table of two.
C5_Witness ==
    /\ resp.op = "match" /\ resp.status = 400 /\ resp.error = "table"
    /\ resp.count # participants_file[1].table
    /\ Cardinality(TableEntries(participants_file, participants_file[1].table)) >= 2
    /\ matches_file = <<>>

Malformed(row) == row = RowNoEmail \/ row = RowBadTable

\* Every body that is no list, or has a malformed row anywhere, is refused.
MalformedRefused ==
    \A req \in UploadRequests :
        (~req.payload.is_list \/ \E k \in 1..Len(req.payload.rows) : Malformed(req.payload.rows[k]))
            <=> upload_response(req.parsed).status = 400

\* C8: an upload that is refused leaves the stored participants and the
\* stored matches as they were.
C8_FailedUploadPersistsNothing ==
    [][ /\ MalformedRefused
        /\ (resp'.op = "upload" /\ resp'.status = 400) =>
              /\ participants_file' = participants_file
              /\ matches_file' = matches_file ]_vars

\* An upload was refused while a roster and its matches were stored.
C8_Witness ==
    /\ resp.op = "upload" /\ resp.status = 400
    /\ participants_file # <<>>
    /\ matches_file # <<>>

\* ------------------------------------------- claims on concurrent requests
AllCompleted == \A w \in Workers : pc[w] = "idle"

\* ms is what some run of make_matches returns on the stored roster pfile.
ComputedFrom(ms, pfile) ==
    \E s \in 0..(RngMod - 1) :
        LET r == make_matches(pfile, <<>>, s) IN r.ok /\ r.results = ms

\* C9 as stated: once all requests have completed, the stored match set is
\* empty or was computed from the participant snapshot currently stored.
C9_MatchesOfStoredRoster ==
    AllCompleted => (matches_file = <<>> \/ ComputedFrom(matches_file, participants_file))

\* C9 amended: once all requests have completed, the stored match set is
\* empty or was computed from the participant snapshot read by the match
\* request that wrote it, which need not be the one currently stored.
C9_MatchesOfReadRoster ==
    AllCompleted => (matches_file = <<>> \/ ComputedFrom(matches_file, src))

\* All requests have completed, matches are stored, and an upload has since
\* replaced the roster they were computed from.
C9_Witness ==
    /\ AllCompleted
    /\ matches_file # <<>>
    /\ src # participants_file
    /\ ComputedFrom(matches_file, src)

====
